---- MODULE Spec2Model ----
(***************************************************************************)
(* SBCL Genesis v2.0 (src/app.py): the slider-driven scoring dashboard.    *)
(*                                                                         *)
(* Numbers.  The program computes in binary floating point; the model      *)
(* computes the same formulas in exact decimal fixed point:                *)
(*   - a slider value v is held as the integer 100*v (membrane 2.3 is 230, *)
(*     entropy 0.47 is 47, charge -0.8 is -80);                             *)
(*   - a disease profile's frequency, amplitude and chaos are held as      *)
(*     100*value, its phase as a multiple of pi/12;                        *)
(*   - a score s is held as 100*s (45.0 is 4500), except phase_lock, which *)
(*     the program rounds to a whole number and the model holds as such;   *)
(*   - total_complexity t is held as 100*t;                                *)
(*   - a molecule's mw and logP are held as 10*value;                      *)
(*   - the animation time offset t is held as 10*t.                        *)
(* Floating-point rounding error (of the order of 1e-14) is not modelled.  *)
(***************************************************************************)
EXTENDS Integers, Sequences, FiniteSets, TLC

VARIABLES
    app,            \* the SBCLGenesis object built at the top of main()
    language,       \* "Interface Language" selectbox
    disease,        \* "Target Disorder" selectbox
    params,         \* the six slider values, as collected into params
    animate,        \* "Real-time Animation" checkbox
    event,          \* the user input that started the current script run
    session_state,  \* st.session_state: holds animation_time once set
    pc,             \* position of the script run
    i,              \* frame counter of the animation loop
    passes,         \* number of script runs started so far
    scores,         \* result of calculate_scores in this run
    waves,          \* result of the latest generate_wave_data call
    complexity,     \* result of get_molecular_complexity in this run
    mol_data,       \* molecular_structures[complexity]
    violations,     \* Lipinski violations counted for mol_data
    drug_like,      \* the assessment label shown for mol_data
    download,       \* the export offered for download in this run
    wave_calls,     \* history: the generate_wave_data calls of SpecWaves, args and result
    wave_recalled,  \* history: a call repeated the arguments of a recorded call
    last_t,         \* history: t of the latest call made by the animation loop, -1 if none
    prev_params,    \* history: the parameter set of the previous scoring
    prev_scores     \* history: the scores of the previous scoring

vars == <<app, language, disease, params, animate, event, session_state, pc, i,
          passes, scores, waves, complexity, mol_data, violations, drug_like,
          download, wave_calls, wave_recalled, last_t, prev_params, prev_scores>>

\* a local of main() that this run has not assigned yet
None == << >>

Unset(x) == DOMAIN x = {}

\* the same for complexity, which holds a bucket name
NoBucket == "unset"

\* Number of script runs (render passes) explored in one session.
MaxPasses == 3

Min(a, b) == IF a <= b THEN a ELSE b

Max(a, b) == IF a >= b THEN a ELSE b

Abs(a) == IF a < 0 THEN -a ELSE a

\* Python's round() of the non-negative rational n/d: to nearest, ties to even.
PyRound(n, d) == LET q == n \div d
                     r == n % d
                 IN  IF 2 * r < d THEN q
                     ELSE IF 2 * r > d THEN q + 1
                     ELSE IF q % 2 = 0 THEN q ELSE q + 1

(***************************************************************************)
(* SBCLGenesis.__init__: the three profile tables.                         *)
(***************************************************************************)
ParamKeys == {"membrane", "entropy", "structural", "charge", "selectivity", "stability"}

language_configs == [
  Basic |-> [
    membrane |-> [name |-> "Drug Delivery", desc |-> "How well the drug gets through cell walls"],
    entropy |-> [name |-> "Disease Recognition", desc |-> "How well the drug recognizes diseased cells"],
    structural |-> [name |-> "Drug Flexibility", desc |-> "How well the drug adapts its shape"],
    charge |-> [name |-> "Electric Attraction", desc |-> "Electric charge helps stick to targets"],
    selectivity |-> [name |-> "Precision Targeting", desc |-> "How precisely it attacks only disease cells"],
    stability |-> [name |-> "Drug Durability", desc |-> "How long the drug stays active"]],
  Scientific |-> [
    membrane |-> [name |-> "Membrane Permeability", desc |-> "Molecular passage through cellular barriers"],
    entropy |-> [name |-> "Entropy Coupling", desc |-> "Resonance with disorder's chaotic patterns"],
    structural |-> [name |-> "Structural Adaptability", desc |-> "Molecular flexibility and dynamics"],
    charge |-> [name |-> "Charge Distribution", desc |-> "Electrostatic field alignment"],
    selectivity |-> [name |-> "Target Selectivity", desc |-> "Precision of molecular recognition"],
    stability |-> [name |-> "Symbolic Stability", desc |-> "Resistance to field decay"]],
  Symbolic |-> [
    membrane |-> [name |-> "Veil Threading", desc |-> "Gracefully piercing cellular veils"],
    entropy |-> [name |-> "Chaos Dancing", desc |-> "Communion with disorder's hidden patterns"],
    structural |-> [name |-> "Form Wisdom", desc |-> "Sacred balance between flow and permanence"],
    charge |-> [name |-> "Electric Soul", desc |-> "Spiritual polarity guiding essence"],
    selectivity |-> [name |-> "Divine Precision", desc |-> "Recognizing darkness from light"],
    stability |-> [name |-> "Eternal Coherence", desc |-> "Resistance to entropy's dissolution"]],
  Mathematical |-> [
    membrane |-> [name |-> "Permeability Coefficient", desc |-> "Diffusion rate constant (log P)"],
    entropy |-> [name |-> "Information Entropy", desc |-> "Shannon entropy of binding states"],
    structural |-> [name |-> "Conformational Energy", desc |-> "Free energy barrier (kcal/mol)"],
    charge |-> [name |-> "Electrostatic Potential", desc |-> "Net charge distribution (Coulombs)"],
    selectivity |-> [name |-> "Binding Specificity", desc |-> "On/off-target binding ratio"],
    stability |-> [name |-> "Thermodynamic Stability", desc |-> "Gibbs free energy (dG)"]]]

Cancer == "Cancer (Entropy Pattern)"

Alzheimers == "Alzheimer's (Protein Misfolding)"

Inflammation == "Chronic Inflammation"

Diabetes == "Type 2 Diabetes"

Autoimmune == "Autoimmune Disorders"

DiseaseNames == {Cancer, Alzheimers, Inflammation, Diabetes, Autoimmune}

\* frequency, amplitude, chaos as 100*value; phase as a multiple of pi/12.
disease_profiles == [d \in DiseaseNames |->
    CASE d = Cancer       -> [color |-> "#ff3366", frequency |-> 120, amplitude |-> 80, chaos |-> 90, phase |-> 0]
      [] d = Alzheimers   -> [color |-> "#aa66ff", frequency |-> 80,  amplitude |-> 60, chaos |-> 70, phase |-> 3]
      [] d = Inflammation -> [color |-> "#ff9900", frequency |-> 100, amplitude |-> 90, chaos |-> 60, phase |-> 6]
      [] d = Diabetes     -> [color |-> "#3388ff", frequency |-> 60,  amplitude |-> 70, chaos |-> 50, phase |-> 4]
      [] d = Autoimmune   -> [color |-> "#ff4488", frequency |-> 140, amplitude |-> 85, chaos |-> 80, phase |-> 2]]

\* mutant: the 'advanced' record weighs 462.3, under the Lipinski limit
molecular_structures_light == [
    simple   |-> [id |-> "SBCL-2024-S1A2", mw |-> 1562, logP |-> 12, hbd |-> 1, hba |-> 2],
    medium   |-> [id |-> "SBCL-2024-A7X3", mw |-> 3427, logP |-> 24, hbd |-> 3, hba |-> 5],
    complex  |-> [id |-> "SBCL-2024-Z9Q7", mw |-> 4873, logP |-> 31, hbd |-> 4, hba |-> 7],
    advanced |-> [id |-> "SBCL-2024-Omega4Psi6", mw |-> 4623, logP |-> 42, hbd |-> 2, hba |-> 4]]

\* mw and logP as 10*value.  The last id is 'SBCL-2024-(Omega)4(Psi)6' in the source.
molecular_structures == [
    simple   |-> [id |-> "SBCL-2024-S1A2", mw |-> 1562, logP |-> 12, hbd |-> 1, hba |-> 2],
    medium   |-> [id |-> "SBCL-2024-A7X3", mw |-> 3427, logP |-> 24, hbd |-> 3, hba |-> 5],
    complex  |-> [id |-> "SBCL-2024-Z9Q7", mw |-> 4873, logP |-> 31, hbd |-> 4, hba |-> 7],
    advanced |-> [id |-> "SBCL-2024-Omega4Psi6", mw |-> 6238, logP |-> 42, hbd |-> 2, hba |-> 4]]

SBCLGenesis == [language_configs |-> language_configs,
                disease_profiles |-> disease_profiles,
                molecular_structures |-> molecular_structures]

(***************************************************************************)
(* SBCLGenesis.calculate_scores.  Scores are held as 100*score.            *)
(***************************************************************************)
\* stability_score = min(100, params['stability'] * 20)
stability_score(p) == Min(10000, p.stability * 20)

\* mutant: the profile's amplitude is read instead of its chaos
coupling_score_amplitude(p, disease_profile) == Min(10000, p.entropy * disease_profile.amplitude)

\* coupling_score = min(100, params['entropy'] * 100 * disease_profile['chaos'])
coupling_score(p, disease_profile) == Min(10000, p.entropy * disease_profile.chaos)

\* entropy_align_score = min(100, params['entropy'] * 80 + 20)
entropy_align_score(p) == Min(10000, p.entropy * 80 + 2000)

\* mutant: the score falls as selectivity rises
selectivity_score_inverted(p) == Min(10000, (100 - p.selectivity) * 100)

\* selectivity_score = min(100, params['selectivity'] * 100)
selectivity_score(p) == Min(10000, p.selectivity * 100)

\* mutant: the clipping of the coherence score is left out
coherence_score_unclipped(p) == 6000 + p.selectivity * 30 + p.stability * 8

\* coherence_score = min(100, 60 + params['selectivity'] * 30 + params['stability'] * 8)
coherence_score(p) == Min(10000, 6000 + p.selectivity * 30 + p.stability * 8)

\* membrane_score = min(100, max(0, 100 - abs(params['membrane'] - 2.5) * 20))
membrane_score(p) == Min(10000, Max(0, 10000 - Abs(p.membrane - 250) * 20))

\* charge_score = min(100, max(0, 100 - abs(params['charge'] + 1.0) * 25))
charge_score(p) == Min(10000, Max(0, 10000 - Abs(p.charge + 100) * 25))

\* structural_score = min(100, max(0, 100 - abs(params['structural'] - 3.0) * 15))
structural_score(p) == Min(10000, Max(0, 10000 - Abs(p.structural - 300) * 15))

\* mutant: the coupling weight is 0.20, so the weights sum to 0.95
phase_lock_underweight(p, disease_profile) ==
    PyRound(membrane_score(p) * 15 + coupling_score(p, disease_profile) * 20
              + structural_score(p) * 15 + charge_score(p) * 15
              + selectivity_score(p) * 20 + stability_score(p) * 10,
            10000)

\* phase_lock = round(... weighted sum ...); the weights are held as 100*weight,
\* so the sum below is 10000 times the program's.
phase_lock(p, disease_profile) ==
    PyRound(membrane_score(p) * 15 + coupling_score(p, disease_profile) * 25
              + structural_score(p) * 15 + charge_score(p) * 15
              + selectivity_score(p) * 20 + stability_score(p) * 10,
            10000)

calculate_scores(p, disease_profile) ==
    [stability     |-> stability_score(p),
     coupling      |-> coupling_score(p, disease_profile),
     entropy_align |-> entropy_align_score(p),
     selectivity   |-> selectivity_score(p),
     coherence     |-> coherence_score(p),
     phase_lock    |-> phase_lock(p, disease_profile)]

(***************************************************************************)
(* SBCLGenesis.get_molecular_complexity.  total_complexity is 100*total.   *)
(***************************************************************************)
\* mutant: the charge enters with its sign
total_complexity_signed(p) ==
    p.membrane + p.entropy * 5 + p.structural + p.charge + p.selectivity * 3 + p.stability

total_complexity(p) ==
    p.membrane + p.entropy * 5 + p.structural + Abs(p.charge) + p.selectivity * 3 + p.stability

\* mutant: the last bucket is given a name the tables do not have
get_molecular_complexity_expert(p) ==
    IF total_complexity(p) < 600 THEN "simple"
    ELSE IF total_complexity(p) < 1000 THEN "medium"
    ELSE IF total_complexity(p) < 1400 THEN "complex"
    ELSE "expert"

\* mutant: the thresholds compared with <= instead of <
get_molecular_complexity_inclusive(p) ==
    IF total_complexity(p) <= 600 THEN "simple"
    ELSE IF total_complexity(p) <= 1000 THEN "medium"
    ELSE IF total_complexity(p) <= 1400 THEN "complex"
    ELSE "advanced"

get_molecular_complexity(p) ==
    IF total_complexity(p) < 600 THEN "simple"
    ELSE IF total_complexity(p) < 1000 THEN "medium"
    ELSE IF total_complexity(p) < 1400 THEN "complex"
    ELSE "advanced"

(***************************************************************************)
(* SBCLGenesis.generate_wave_data.  x = linspace(0, 10, 1000) is the same  *)
(* in every call.  A curve is a sum of sinusoids a*sin(f*x + w + ph)       *)
(* sampled on x; the model holds each curve as the coefficients of its     *)
(* terms, which determine all of its samples:                              *)
(*   layer_amp    as 10^4 * value,  layer_freq as 10^6 * value,            *)
(*   layer_phase  as a multiple of pi/42000,  t as 10*t,                   *)
(*   term amplitude as the pair <<10^4 * layer_amp, 10^4 * factor>> whose  *)
(*   product it is, term frequency as 10^7 * value,                        *)
(*   term time shift as 100 * value, vertical offset as 10 * value.        *)
(***************************************************************************)
colors == <<"#00ffcc", "#ff66ff", "#66ccff", "#ccff66", "#ff9966", "#9966ff">>

\* layer_amp = (12 + i*3) * (0.4 + entropy_influence*disease_amp + charge_influence*0.3)
layer_amp(k, p, disease_profile) ==
    (12 + k * 3) * (4000 + p.entropy * disease_profile.amplitude + 15 * Abs(p.charge))

\* layer_freq = (0.6 + i*0.2) * disease_freq * (0.6 + membrane_influence*0.5 + selectivity_influence*0.4)
layer_freq(k, p, disease_profile) ==
    (6 + k * 2) * disease_profile.frequency * (600 + p.membrane + 4 * p.selectivity)

\* layer_phase = (i * pi/6) + (stability_influence * pi/4) + disease_profile['phase']
layer_phase(k, p, disease_profile) ==
    7000 * k + 21 * p.stability + 3500 * disease_profile.phase

\* one term (amp * factor) * sin(freq * x + shift + phase) of a curve
Sinusoid(amp, factor, freq, shift, phase) ==
    [amp |-> <<amp, factor>>, freq |-> freq, shift |-> shift, phase |-> phase]

wave_layer(k, p, disease_profile, t) ==
    LET amp == layer_amp(k, p, disease_profile)
        freq == layer_freq(k, p, disease_profile)
        ph == layer_phase(k, p, disease_profile)
        primary_wave == Sinusoid(amp, 10000, freq * 10, t * 10, ph)
        chaos_wave == Sinusoid(amp, 20 * disease_profile.chaos, freq * 37, t * 21, ph + 6000)
        therapeutic_response == Sinusoid(amp, 25 * p.selectivity, freq * 10, t * 8, ph + 42000)
        signature == <<Sinusoid(amp, 7000, freq * 13, t * 12, ph),
                       Sinusoid(amp, 30 * disease_profile.chaos, freq * 27, t * 18, ph + 14000)>>
    IN  [y |-> [terms |-> <<primary_wave, chaos_wave, therapeutic_response>>, offset |-> k * 8],
         color |-> colors[(k % Len(colors)) + 1],
         opacity |-> Min(400 + p.entropy * 3 + p.selectivity * 2, 900),
         disease_signature |-> IF k \in {1, 3}
                               THEN [terms |-> signature, offset |-> k * 8]
                               ELSE None]

\* mutant: the session's animation clock is added to t inside the function
generate_wave_data_ambient(p, disease_profile, t) ==
    [k \in 1..6 |->
        wave_layer(k - 1, p, disease_profile,
                   t + (IF Unset(session_state) THEN 0 ELSE session_state.animation_time * 10))]

generate_wave_data(p, disease_profile, t) ==
    [k \in 1..6 |-> wave_layer(k - 1, p, disease_profile, t)]

(***************************************************************************)
(* main(): the widgets.  Slider values are held as 100*value.              *)
(***************************************************************************)
LanguageOptions == {"Basic", "Scientific", "Symbolic", "Mathematical"}

sliders == [
    membrane    |-> [min_value |-> 0,    max_value |-> 500, value |-> 230, step |-> 10],
    entropy     |-> [min_value |-> 0,    max_value |-> 100, value |-> 47,  step |-> 1],
    structural  |-> [min_value |-> 0,    max_value |-> 500, value |-> 280, step |-> 10],
    charge      |-> [min_value |-> -200, max_value |-> 200, value |-> -80, step |-> 10],
    selectivity |-> [min_value |-> 0,    max_value |-> 100, value |-> 74,  step |-> 1],
    stability   |-> [min_value |-> 0,    max_value |-> 500, value |-> 320, step |-> 10]]

\* every position a slider can be put in
SliderRange(k) ==
    {v \in sliders[k].min_value .. sliders[k].max_value :
        (v - sliders[k].min_value) % sliders[k].step = 0}

\* The slider positions explored: both ends of each range, the default, the
\* scoring targets (membrane 2.5, structural 3.0, charge -1.0), the values of
\* the worked example and positions that put total_complexity on a threshold.
Stops == [
    membrane    |-> {0, 230, 250, 500},
    entropy     |-> {0, 47, 50, 100},
    structural  |-> {0, 280, 300, 500},
    charge      |-> {-200, -100, -80, 0, 200},
    selectivity |-> {0, 33, 74, 100},
    stability   |-> {0, 320, 500}]

\* the parameter set of the specification's worked example
ExampleParams == [membrane |-> 250, entropy |-> 50, structural |-> 300,
                  charge |-> -100, selectivity |-> 74, stability |-> 320]

DefaultParams == [k \in ParamKeys |-> sliders[k].value]

\* for i in range(60)
Frames == 60

(***************************************************************************)
(* A script run.  Every user input reruns main() from the top: lines       *)
(* 229-311 rebuild app, read the widgets, collect params and score them.   *)
(***************************************************************************)
RunTop(ev, lang, dis, p, anim) ==
    /\ app' = SBCLGenesis
    /\ language' = lang
    /\ disease' = dis
    /\ params' = p
    /\ animate' = anim
    /\ event' = ev
    /\ scores' = calculate_scores(p, SBCLGenesis.disease_profiles[dis])
    /\ prev_params' = params
    /\ prev_scores' = scores
    /\ passes' = passes + 1
    /\ pc' = "viz"
    /\ i' = 0
    /\ waves' = None
    /\ complexity' = NoBucket
    /\ mol_data' = None
    /\ violations' = 0
    /\ drug_like' = None
    /\ download' = None
    /\ UNCHANGED <<session_state, wave_calls, wave_recalled, last_t>>

Idle == pc = "idle" /\ passes < MaxPasses

MoveSlider(k, v) ==
    /\ Idle
    /\ v \in SliderRange(k)
    /\ v # params[k]
    /\ RunTop("slider", language, disease, [params EXCEPT ![k] = v], animate)

SelectLanguage(l) ==
    /\ Idle
    /\ l # language
    /\ RunTop("language", l, disease, params, animate)

SelectDisease(d) ==
    /\ Idle
    /\ d # disease
    /\ RunTop("disease", language, d, params, animate)

ToggleAnimate ==
    /\ Idle
    /\ RunTop("animate", language, disease, params, ~animate)

ClickButton(b) ==
    /\ Idle
    /\ RunTop(b, language, disease, params, animate)

\* x, waves = app.generate_wave_data(params, disease_profile, t)
CallWaves(t) ==
    /\ waves' = generate_wave_data(params, app.disease_profiles[disease], t)
    /\ UNCHANGED <<wave_calls, wave_recalled>>

\* if animate: if 'animation_time' not in st.session_state: ... = 0
BeginAnimation ==
    /\ pc = "viz"
    /\ animate
    /\ session_state' = IF "animation_time" \in DOMAIN session_state
                        THEN session_state
                        ELSE [animation_time |-> 0]
    /\ pc' = "frame"
    /\ i' = 0
    /\ UNCHANGED <<app, language, disease, params, animate, event, passes, scores,
                   waves, complexity, mol_data, violations, drug_like, download,
                   wave_calls, wave_recalled, last_t, prev_params, prev_scores>>

\* mutant: the test of the in-loop break is inverted, so it fires
AnimationFrame_breaking ==
    /\ pc = "frame"
    /\ i < Frames
    /\ CallWaves(session_state.animation_time * 10 + i)
    /\ last_t' = session_state.animation_time * 10 + i
    /\ i' = IF animate THEN Frames ELSE i + 1
    /\ UNCHANGED <<app, language, disease, params, animate, event, session_state, pc,
                   passes, scores, complexity, mol_data, violations, drug_like,
                   download, prev_params, prev_scores>>

\* one iteration of the animation loop: t = animation_time + i * 0.1
AnimationFrame ==
    /\ pc = "frame"
    /\ i < Frames
    /\ CallWaves(session_state.animation_time * 10 + i)
    /\ last_t' = session_state.animation_time * 10 + i
    /\ i' = IF ~animate THEN Frames ELSE i + 1
    /\ UNCHANGED <<app, language, disease, params, animate, event, session_state, pc,
                   passes, scores, complexity, mol_data, violations, drug_like,
                   download, prev_params, prev_scores>>

\* mutant: the clock is advanced by less than the pass has covered
EndAnimation_short ==
    /\ pc = "frame"
    /\ i = Frames
    /\ session_state' = [session_state EXCEPT !.animation_time = @ + 5]
    /\ pc' = "mol"
    /\ UNCHANGED <<app, language, disease, params, animate, event, i, passes, scores,
                   waves, complexity, mol_data, violations, drug_like, download,
                   wave_calls, wave_recalled, last_t, prev_params, prev_scores>>

\* st.session_state.animation_time += 6
EndAnimation ==
    /\ pc = "frame"
    /\ i = Frames
    /\ session_state' = [session_state EXCEPT !.animation_time = @ + 6]
    /\ pc' = "mol"
    /\ UNCHANGED <<app, language, disease, params, animate, event, i, passes, scores,
                   waves, complexity, mol_data, violations, drug_like, download,
                   wave_calls, wave_recalled, last_t, prev_params, prev_scores>>

\* mutant: the clock is advanced after the static chart as well
StaticVisualization_advancing ==
    /\ pc = "viz"
    /\ ~animate
    /\ CallWaves(0)
    /\ UNCHANGED last_t
    /\ session_state' = IF Unset(session_state)
                        THEN [animation_time |-> 6]
                        ELSE [session_state EXCEPT !.animation_time = @ + 6]
    /\ pc' = "mol"
    /\ UNCHANGED <<app, language, disease, params, animate, event, i,
                   passes, scores, complexity, mol_data, violations, drug_like,
                   download, prev_params, prev_scores>>

\* else: x, waves = app.generate_wave_data(params, disease_profile)
StaticVisualization ==
    /\ pc = "viz"
    /\ ~animate
    /\ CallWaves(0)
    /\ UNCHANGED last_t
    /\ pc' = "mol"
    /\ UNCHANGED <<app, language, disease, params, animate, event, session_state, i,
                   passes, scores, complexity, mol_data, violations, drug_like,
                   download, prev_params, prev_scores>>

\* mutant: the molecular-weight rule is left out
count_violations_no_mw(m) ==
    (IF m.logP > 50 THEN 1 ELSE 0) + (IF m.hbd > 5 THEN 1 ELSE 0)
      + (IF m.hba > 10 THEN 1 ELSE 0)

count_violations(m) ==
    (IF m.mw > 5000 THEN 1 ELSE 0) + (IF m.logP > 50 THEN 1 ELSE 0)
      + (IF m.hbd > 5 THEN 1 ELSE 0) + (IF m.hba > 10 THEN 1 ELSE 0)

drug_like_label(n) ==
    IF n = 0 THEN <<"Lipinski Compliant">> ELSE <<n, "Lipinski Violations">>

\* complexity = ...; mol_data = app.molecular_structures[complexity]; violations
MolecularCandidate ==
    /\ pc = "mol"
    /\ complexity' = get_molecular_complexity(params)
    /\ IF complexity' \in DOMAIN app.molecular_structures
       THEN /\ mol_data' = app.molecular_structures[complexity']
            /\ violations' = count_violations(mol_data')
            /\ drug_like' = drug_like_label(violations')
            /\ pc' = "export"
       ELSE /\ pc' = "KeyError"
            /\ UNCHANGED <<mol_data, violations, drug_like>>
    /\ UNCHANGED <<app, language, disease, params, animate, event, session_state, i,
                   passes, scores, waves, download, wave_calls, wave_recalled, last_t,
                   prev_params, prev_scores>>

(***************************************************************************)
(* main(): the export column.  At most one button is pressed in a run.     *)
(***************************************************************************)
smiles_map == [
    simple   |-> "C1=CC=C(C=C1)C(=O)N",
    medium   |-> "C1=CC2=C(C=C1)N=C(S2)C3=CC=CC=C3N",
    complex  |-> "C1=CC=C2C(=C1)C(=CN2)C3=CC=C(C=C3)C(=O)NCC4=CC=CC=C4F",
    advanced |-> "C1=CC=C2C(=C1)C(=C(N2)C3=CC=C(C=C3)Cl)C4=CC=C(C=C4)Br"]

ExportFrame == UNCHANGED <<app, language, disease, params, animate, event, session_state,
                           i, passes, scores, waves, complexity, mol_data, violations,
                           drug_like, wave_calls, wave_recalled, last_t,
                           prev_params, prev_scores>>

\* the text report (its 'Generated:' time stamp is left out)
GenerateReport ==
    /\ pc = "export"
    /\ event = "report"
    /\ download' = [file_name |-> <<mol_data.id, "_report.txt">>,
                    mime |-> "text/plain",
                    data |-> [disease |-> disease,
                              phase_lock |-> scores.phase_lock,
                              molecule_id |-> mol_data.id,
                              parameters |-> params,
                              scores |-> scores,
                              molecule |-> mol_data,
                              assessment |-> drug_like,
                              recommendation |-> IF scores.phase_lock >= 80
                                                 THEN "Proceed to testing"
                                                 ELSE "Optimize parameters"]]
    /\ pc' = "idle"
    /\ ExportFrame

\* export_df = pd.DataFrame([{...}]); csv = export_df.to_csv(index=False)
ExportCSV ==
    /\ pc = "export"
    /\ event = "csv"
    /\ download' = [file_name |-> <<mol_data.id, "_data.csv">>,
                    mime |-> "text/csv",
                    data |-> << [molecule_id |-> mol_data.id,
                                 disease |-> disease,
                                 phase_lock |-> scores.phase_lock,
                                 membrane |-> params.membrane,
                                 entropy |-> params.entropy,
                                 structural |-> params.structural,
                                 charge |-> params.charge,
                                 selectivity |-> params.selectivity,
                                 stability |-> params.stability,
                                 mw |-> mol_data.mw,
                                 logP |-> mol_data.logP,
                                 drug_like |-> (violations = 0)] >>]
    /\ pc' = "idle"
    /\ ExportFrame

\* smiles_data = f"{mol_data['id']}\t{smiles_map[complexity]}\t{phase_lock}%\t{disease}"
ExportSMILES ==
    /\ pc = "export"
    /\ event = "smiles"
    /\ IF complexity \in DOMAIN smiles_map
       THEN /\ download' = [file_name |-> <<mol_data.id, "_smiles.smi">>,
                            mime |-> "text/plain",
                            data |-> <<mol_data.id, smiles_map[complexity],
                                       scores.phase_lock, disease>>]
            /\ pc' = "idle"
       ELSE /\ pc' = "KeyError"
            /\ UNCHANGED download
    /\ ExportFrame

\* no export button was pressed in this run
NoExport ==
    /\ pc = "export"
    /\ event \notin {"report", "csv", "smiles"}
    /\ pc' = "idle"
    /\ UNCHANGED download
    /\ ExportFrame

(***************************************************************************)
(* The session: the first run starts with every widget at its default.     *)
(***************************************************************************)
FirstRun ==
    /\ app = SBCLGenesis
    /\ language = "Scientific"
    /\ disease = Cancer
    /\ params = DefaultParams
    /\ animate = TRUE
    /\ event = "load"
    /\ session_state = << >>
    /\ pc = "viz"
    /\ i = 0
    /\ passes = 1
    /\ scores = calculate_scores(DefaultParams, disease_profiles[Cancer])
    /\ waves = None
    /\ complexity = NoBucket
    /\ mol_data = None
    /\ violations = 0
    /\ drug_like = None
    /\ download = None
    /\ wave_calls = {}
    /\ wave_recalled = FALSE
    /\ last_t = -1
    /\ prev_params = None
    /\ prev_scores = None

Init == FirstRun

Next ==
    \/ \E k \in ParamKeys : \E v \in Stops[k] : MoveSlider(k, v)
    \/ \E l \in LanguageOptions : SelectLanguage(l)
    \/ \E d \in DiseaseNames : SelectDisease(d)
    \/ ToggleAnimate
    \/ \E b \in {"report", "csv", "smiles"} : ClickButton(b)
    \/ BeginAnimation
    \/ AnimationFrame
    \/ EndAnimation
    \/ StaticVisualization
    \/ MolecularCandidate
    \/ GenerateReport
    \/ ExportCSV
    \/ ExportSMILES
    \/ NoExport

Spec == Init /\ [][Next]_vars

\* The steps a script run takes by itself once started.  The run is the one
\* thread of the session and executes statement after statement, so a step that
\* stays enabled is eventually taken; user inputs carry no such obligation.
ScriptStep ==
    \/ BeginAnimation
    \/ AnimationFrame
    \/ EndAnimation
    \/ StaticVisualization
    \/ MolecularCandidate
    \/ GenerateReport
    \/ ExportCSV
    \/ ExportSMILES
    \/ NoExport

\* The session as in Next, each slider moved only to its position of the worked
\* example: the control flow of a run reads animate and the pressed button,
\* never the slider values.
NextLive ==
    \/ \E k \in ParamKeys : MoveSlider(k, ExampleParams[k])
    \/ \E l \in LanguageOptions : SelectLanguage(l)
    \/ \E d \in DiseaseNames : SelectDisease(d)
    \/ ToggleAnimate
    \/ \E b \in {"report", "csv", "smiles"} : ClickButton(b)
    \/ ScriptStep

SpecLive == Init /\ [][NextLive]_vars /\ WF_vars(ScriptStep)

(***************************************************************************)
(* The scoring function and the classifier on their own: the parameter set *)
(* and the disease are drawn from the explored positions, and the actions  *)
(* apply the functions to them.                                            *)
(***************************************************************************)
GridParams == [membrane : Stops.membrane, entropy : Stops.entropy,
               structural : Stops.structural, charge : Stops.charge,
               selectivity : Stops.selectivity, stability : Stops.stability]

FnFrame == UNCHANGED <<app, language, disease, animate, event, session_state, pc, i,
                       passes, waves, mol_data, violations, drug_like, download,
                       wave_calls, wave_recalled, last_t>>

InitFn ==
    /\ app = SBCLGenesis
    /\ language = "Scientific"
    /\ disease \in DiseaseNames
    /\ params \in GridParams
    /\ animate = FALSE
    /\ event = "load"
    /\ session_state = << >>
    /\ pc = "fn"
    /\ i = 0
    /\ passes = 0
    /\ scores = None
    /\ waves = None
    /\ complexity = NoBucket
    /\ mol_data = None
    /\ violations = 0
    /\ drug_like = None
    /\ download = None
    /\ wave_calls = {}
    /\ wave_recalled = FALSE
    /\ last_t = -1
    /\ prev_params = None
    /\ prev_scores = None

\* scores = app.calculate_scores(params, disease_profile)
ApplyCalculateScores ==
    /\ pc = "fn"
    /\ Unset(scores)
    /\ complexity = NoBucket
    /\ scores' = calculate_scores(params, app.disease_profiles[disease])
    /\ UNCHANGED <<params, complexity, prev_params, prev_scores>>
    /\ FnFrame

\* the same call after the selectivity slider alone has been moved
ApplyCalculateScoresAgain(v) ==
    /\ pc = "fn"
    /\ ~Unset(scores)
    /\ Unset(prev_scores)
    /\ v \in SliderRange("selectivity")
    /\ params' = [params EXCEPT !.selectivity = v]
    /\ scores' = calculate_scores(params', app.disease_profiles[disease])
    /\ prev_params' = params
    /\ prev_scores' = scores
    /\ UNCHANGED complexity
    /\ FnFrame

\* complexity = app.get_molecular_complexity(params)
ApplyGetMolecularComplexity ==
    /\ pc = "fn"
    /\ Unset(scores)
    /\ complexity = NoBucket
    /\ complexity' = get_molecular_complexity(params)
    /\ UNCHANGED <<params, scores, prev_params, prev_scores>>
    /\ FnFrame

NextFn ==
    \/ ApplyCalculateScores
    \/ \E v \in Stops.selectivity : ApplyCalculateScoresAgain(v)
    \/ ApplyGetMolecularComplexity

SpecFn == InitFn /\ [][NextFn]_vars

(***************************************************************************)
(* The wave generator on its own: calls on argument triples drawn from     *)
(* small sets, every call and its result kept in wave_calls, and between   *)
(* the calls animated render passes that advance the session's clock.      *)
(***************************************************************************)
\* Number of distinct argument triples recorded in wave_calls.
MaxCalls == 3

\* the time offsets of the calls: the first and the last frame of a first
\* animated pass (0 is also the default t)
WaveTimes == {0, 59}

WaveParams == {DefaultParams, ExampleParams}

WaveDiseases == {Cancer, Alzheimers, Diabetes}

InitWaves ==
    /\ app = SBCLGenesis
    /\ language = "Scientific"
    /\ disease = Cancer
    /\ params = DefaultParams
    /\ animate = TRUE
    /\ event = "load"
    /\ session_state = << >>
    /\ pc = "fn"
    /\ i = 0
    /\ passes = 0
    /\ scores = None
    /\ waves = None
    /\ complexity = NoBucket
    /\ mol_data = None
    /\ violations = 0
    /\ drug_like = None
    /\ download = None
    /\ wave_calls = {}
    /\ wave_recalled = FALSE
    /\ last_t = -1
    /\ prev_params = None
    /\ prev_scores = None

\* x, waves = app.generate_wave_data(params, disease_profile, t)
ApplyGenerateWaveData(p, d, t) ==
    LET disease_profile == app.disease_profiles[d]
        args == [params |-> p, disease_profile |-> disease_profile, t |-> t]
        out == generate_wave_data(p, disease_profile, t)
        known == \E c \in wave_calls : c.args = args
    IN  /\ pc = "fn"
        /\ known \/ Cardinality(wave_calls) < MaxCalls
        /\ params' = p
        /\ disease' = d
        /\ waves' = out
        /\ wave_calls' = wave_calls \cup {[args |-> args, out |-> out]}
        /\ wave_recalled' = (wave_recalled \/ known)
        /\ UNCHANGED last_t
        /\ UNCHANGED <<app, language, animate, event, session_state, pc, i, passes,
                       scores, complexity, mol_data, violations, drug_like, download,
                       prev_params, prev_scores>>

\* what an animated render pass between two calls leaves in the session:
\* animation_time set to 0 if absent, then advanced by 6
AnimatedPassBetween ==
    /\ pc = "fn"
    /\ passes < MaxPasses
    /\ passes' = passes + 1
    /\ session_state' = IF Unset(session_state)
                        THEN [animation_time |-> 6]
                        ELSE [session_state EXCEPT !.animation_time = @ + 6]
    /\ UNCHANGED <<app, language, disease, params, animate, event, pc, i, scores, waves,
                   complexity, mol_data, violations, drug_like, download, wave_calls,
                   wave_recalled, last_t, prev_params, prev_scores>>

NextWaves ==
    \/ \E p \in WaveParams : \E d \in WaveDiseases : \E t \in WaveTimes :
          ApplyGenerateWaveData(p, d, t)
    \/ AnimatedPassBetween

SpecWaves == InitWaves /\ [][NextWaves]_vars

(***************************************************************************)
(* Runs of main() from the explored slider positions.  A session reaches   *)
(* any combination of slider positions by moving the sliders one at a      *)
(* time; here a run starts in each combination, after a first animated run *)
(* and with the animation switched off, either after a slider move or      *)
(* after a press of the CSV button.                                        *)
(***************************************************************************)
InitCsv ==
    /\ app = SBCLGenesis
    /\ language = "Scientific"
    /\ disease \in DiseaseNames
    /\ params \in GridParams
    /\ animate = FALSE
    /\ event \in {"slider", "csv"}
    /\ session_state = [animation_time |-> 6]
    /\ pc = "viz"
    /\ i = 0
    /\ passes = MaxPasses
    /\ scores = calculate_scores(params, SBCLGenesis.disease_profiles[disease])
    /\ waves = None
    /\ complexity = NoBucket
    /\ mol_data = None
    /\ violations = 0
    /\ drug_like = None
    /\ download = None
    /\ wave_calls = {}
    /\ wave_recalled = FALSE
    /\ last_t = 59
    /\ prev_params = None
    /\ prev_scores = None

NextCsv ==
    \/ StaticVisualization
    \/ MolecularCandidate
    \/ ExportCSV
    \/ NoExport

SpecCsv == InitCsv /\ [][NextCsv]_vars

(***************************************************************************)
(* Properties.                                                             *)
(***************************************************************************)
InRange(p) ==
    \A k \in ParamKeys : sliders[k].min_value <= p[k] /\ p[k] <= sliders[k].max_value

\* C1: for every parameter set within the slider ranges and every disease
\* profile, each of the six values returned by calculate_scores lies in
\* [0, 100] (0..10000 in hundredths; phase_lock in whole points).
C1_ScoresWithinRange ==
    (~Unset(scores) /\ InRange(params) /\ disease \in DiseaseNames) =>
        /\ \A k \in {"stability", "coupling", "entropy_align", "selectivity", "coherence"} :
              0 <= scores[k] /\ scores[k] <= 10000
        /\ 0 <= scores.phase_lock /\ scores.phase_lock <= 100

\* C1 witness: scores computed for a parameter set whose unclipped coherence
\* (60 + selectivity*30 + stability*8) exceeds 100 and was clipped to 100.
C1_Witness ==
    /\ ~Unset(scores)
    /\ 6000 + params.selectivity * 30 + params.stability * 8 > 10000
    /\ scores.coherence = 10000

\* the total of the classifier as the specification words it
StatedTotal(p) ==
    p.membrane + p.entropy * 5 + p.structural
      + (IF p.charge < 0 THEN 0 - p.charge ELSE p.charge) + p.selectivity * 3 + p.stability

\* C2: get_molecular_complexity returns exactly one bucket, decided by the
\* total alone: simple below 6, medium on [6,10), complex on [10,14) and
\* advanced from 14 on, the boundaries 6, 10 and 14 in the higher bucket.
C2_ClassifierPartition ==
    complexity # NoBucket =>
        /\ complexity \in {"simple", "medium", "complex", "advanced"}
        /\ (complexity = "simple")   <=> (StatedTotal(params) < 600)
        /\ (complexity = "medium")   <=> (600 <= StatedTotal(params) /\ StatedTotal(params) < 1000)
        /\ (complexity = "complex")  <=> (1000 <= StatedTotal(params) /\ StatedTotal(params) < 1400)
        /\ (complexity = "advanced") <=> (1400 <= StatedTotal(params))

\* C2 witness: a parameter set whose total is exactly 6.00 was classified medium.
C2_Witness ==
    /\ complexity = "medium"
    /\ StatedTotal(params) = 600

C5_SelectivityMonotone ==
    (/\ ~Unset(prev_scores)
     /\ ~Unset(scores)
     /\ \A k \in ParamKeys \ {"selectivity"} : prev_params[k] = params[k]
     /\ 0 <= prev_params.selectivity
     /\ prev_params.selectivity <= params.selectivity
     /\ params.selectivity <= 100)
    => prev_scores.selectivity <= scores.selectivity

\* C5 witness: two scorings that differ only by a strictly larger selectivity,
\* the second with a strictly larger selectivity score.
C5_Witness ==
    /\ ~Unset(prev_scores)
    /\ \A k \in ParamKeys \ {"selectivity"} : prev_params[k] = params[k]
    /\ prev_params.selectivity < params.selectivity
    /\ prev_scores.selectivity < scores.selectivity

\* C6: the coupling score is min(100, entropy * 100 * chaos) of the selected
\* profile; for the worked example with the Cancer profile (chaos 0.9) it is 45.0.
C6_CouplingFormula ==
    ~Unset(scores) =>
        /\ scores.coupling =
              (IF params.entropy * disease_profiles[disease].chaos < 10000
               THEN params.entropy * disease_profiles[disease].chaos ELSE 10000)
        /\ (params = ExampleParams /\ disease_profiles[disease].chaos = 90)
              => scores.coupling = 4500

\* C6 witness: the worked example scored against the Cancer profile.
C6_Witness ==
    /\ ~Unset(scores)
    /\ params = ExampleParams
    /\ disease = Cancer
    /\ scores.coupling = 4500

\* C7 as stated: for the worked example the total complexity is 14.92 and the
\* bucket is 'advanced'.
C7_ExampleTotalAsStated ==
    (complexity # NoBucket /\ params = ExampleParams) =>
        /\ total_complexity(params) = 1492
        /\ complexity = "advanced"

\* C7 amended: for the worked example the total complexity is 14.42
\* (2.5 + 2.5 + 3.0 + 1.0 + 2.22 + 3.2) and the bucket is 'advanced'.
C7_ExampleTotal ==
    (complexity # NoBucket /\ params = ExampleParams) =>
        /\ total_complexity(params) = 1442
        /\ complexity = "advanced"

\* C7 witness: the worked example has been classified.
C7_Witness ==
    /\ params = ExampleParams
    /\ complexity = "advanced"

\* the Lipinski breaches of a molecule record as the specification lists them:
\* MW > 500, logP > 5, HBD > 5, HBA > 10
StatedBreaches(m) ==
    Cardinality({r \in {<<"mw", m.mw, 5000>>, <<"logP", m.logP, 50>>,
                        <<"hbd", m.hbd, 5>>, <<"hba", m.hba, 10>>} : r[2] > r[3]})

\* C8: the CSV export is a single row whose drug_like field is True exactly
\* when the molecule record selected for the current parameter set has no
\* Lipinski breach.
C8_CsvDrugLike ==
    (~Unset(download) /\ download.mime = "text/csv") =>
        /\ Len(download.data) = 1
        /\ violations = StatedBreaches(molecular_structures[get_molecular_complexity(params)])
        /\ download.data[1].molecule_id = molecular_structures[get_molecular_complexity(params)].id
        /\ download.data[1].drug_like =
              (StatedBreaches(molecular_structures[get_molecular_complexity(params)]) = 0)

\* C8 witness: a CSV row was exported with drug_like True for a record without
\* a breach.
C8_Witness ==
    /\ ~Unset(download)
    /\ download.mime = "text/csv"
    /\ violations = 0
    /\ download.data[1].drug_like = TRUE

\* the weighted sum of C9 from the scores as the specification words them,
\* 10000 times the sum (weights as 100*weight)
StatedPenalty(value, target, factor) ==
    LET raw == 10000 - (IF value < target THEN target - value ELSE value - target) * factor
    IN  IF raw < 0 THEN 0 ELSE IF raw > 10000 THEN 10000 ELSE raw

StatedWeightedSum ==
    StatedPenalty(params.membrane, 250, 20) * 15 + scores.coupling * 25
      + StatedPenalty(params.structural, 300, 15) * 15
      + StatedPenalty(params.charge, -100, 25) * 15
      + scores.selectivity * 20 + scores.stability * 10

\* C9: phase_lock is the weighted sum of the sub-scores, weights 0.15, 0.25,
\* 0.15, 0.15, 0.20, 0.10 (summing to 1), rounded to a whole number: it is a
\* whole number within one half of the sum.
C9_PhaseLockWeightedSum ==
    ~Unset(scores) =>
        /\ 15 + 25 + 15 + 15 + 20 + 10 = 100
        /\ scores.phase_lock * 10000 - StatedWeightedSum <= 5000
        /\ StatedWeightedSum - scores.phase_lock * 10000 <= 5000

\* C9 witness: a scoring whose weighted sum is not whole, with a penalised
\* membrane, charge and structural value, so the rounding acted.
C9_Witness ==
    /\ ~Unset(scores)
    /\ StatedWeightedSum % 10000 # 0
    /\ params.membrane # 250
    /\ params.charge # -100
    /\ params.structural # 300
    /\ scores.phase_lock * 10000 # StatedWeightedSum

\* C10: nothing but the animation clock is carried between runs: no step
\* changes the profile tables; the parameter values change only when a slider
\* is moved; animation_time changes only inside a run with animation enabled,
\* so a run with animation disabled leaves it as it was.
C10_Frame ==
    [][/\ app' = app
       /\ (params' # params => (pc = "idle" /\ event' = "slider"))
       /\ (session_state' # session_state => (animate /\ animate' /\ pc \in {"viz", "frame"}))
       /\ ((~animate /\ pc # "idle") => session_state' = session_state)]_vars

\* C10 witness: a run with animation disabled has finished after an animated
\* run set the clock, and the clock still holds what the animated run left.
C10_Witness ==
    /\ pc = "idle"
    /\ ~animate
    /\ passes >= 2
    /\ ~Unset(waves)
    /\ session_state = [animation_time |-> 6]

\* C11: the t passed to generate_wave_data by the animation loop rises strictly
\* over the whole session: animation_time starts at 0, frame i of a pass uses
\* t = animation_time + 0.1*i (i = 0..59), the pass ends by adding 6 to
\* animation_time, which exceeds the 5.9 of its last frame, and animation_time
\* never decreases.
C11_TimeRisesStrictly ==
    [][/\ (Unset(session_state) /\ ~Unset(session_state'))
            => session_state'.animation_time = 0
       /\ (~Unset(session_state))
            => (/\ ~Unset(session_state')
                /\ session_state'.animation_time >= session_state.animation_time)
       /\ (last_t' # last_t)
            => (/\ pc = "frame"
                /\ i \in 0..59
                /\ last_t' = session_state.animation_time * 10 + i
                /\ last_t' > last_t)
       /\ (pc = "frame" /\ pc' # "frame")
            => (/\ session_state'.animation_time = session_state.animation_time + 6
                /\ session_state'.animation_time * 10 > last_t
                /\ last_t = session_state.animation_time * 10 + 59)
      ]_vars

\* C11 witness: the first frame of a second animated pass has been drawn with
\* t = 6.0, after the first pass ended on t = 5.9.
C11_Witness ==
    /\ pc = "frame"
    /\ i = 1
    /\ passes >= 2
    /\ session_state = [animation_time |-> 6]
    /\ last_t = 60

\* C12: every run with animation enabled terminates: its frame loop makes
\* exactly 60 iterations, each one recomputing the waves for the next i (the
\* in-loop break never fires), and on leaving the loop animation_time is
\* incremented once, by 6; nothing else in the run changes it.
C12_AnimatedPassTerminates ==
    /\ (pc = "viz" /\ animate) ~> (pc = "idle")
    /\ [][/\ (pc = "viz" /\ animate) => (pc' = "frame" /\ i' = 0)
          /\ (pc = "frame" /\ pc' = "frame")
               => (/\ i < 60
                   /\ i' = i + 1
                   /\ waves' = generate_wave_data(params, app.disease_profiles[disease],
                                                  session_state.animation_time * 10 + i))
          /\ (pc = "frame" /\ pc' # "frame")
               => (/\ i = 60
                   /\ pc' = "mol"
                   /\ session_state'.animation_time = session_state.animation_time + 6)
          /\ (pc \notin {"viz", "frame"}) => session_state' = session_state
         ]_vars

\* C12 witness: an animated run has left its loop after 60 frames, the last
\* one at t = 5.9, with animation_time advanced from 0 to 6.
C12_Witness ==
    /\ pc = "mol"
    /\ animate
    /\ i = 60
    /\ last_t = 59
    /\ session_state = [animation_time |-> 6]

\* C13: the molecule record selected in a run has no Lipinski violation
\* exactly when the bucket is simple, medium or complex, and exactly one, its
\* weight 623.8 above 500, when the bucket is advanced; so the drug_like field
\* of an exported CSV row is True exactly when the total complexity is below 14.
C13_DrugLikeBelowFourteen ==
    (~Unset(mol_data)) =>
        /\ complexity \in {"simple", "medium", "complex", "advanced"}
        /\ (violations = 0) <=> (complexity \in {"simple", "medium", "complex"})
        /\ (violations = 1) <=> (complexity = "advanced")
        /\ (complexity = "advanced") =>
              /\ mol_data.mw = 6238
              /\ mol_data.mw > 5000
              /\ mol_data.logP <= 50
              /\ mol_data.hbd <= 5
              /\ mol_data.hba <= 10
        /\ (complexity = "advanced") <=> (StatedTotal(params) >= 1400)
        /\ (~Unset(download) /\ download.mime = "text/csv") =>
              download.data[1].drug_like = (StatedTotal(params) < 1400)

\* C13 witness: a CSV row is exported for a total of exactly 14: the bucket is
\* advanced, the one violation is counted and drug_like is False.
C13_Witness ==
    /\ ~Unset(download)
    /\ download.mime = "text/csv"
    /\ StatedTotal(params) = 1400
    /\ complexity = "advanced"
    /\ violations = 1
    /\ download.data[1].drug_like = FALSE

====
